---- MODULE Spec2Model ----
(***************************************************************************)
(* A model of ao3_reader.py: the manual pager, the search-result parser,   *)
(* the chapter text pipeline, the page formatter, the external-pager       *)
(* hand-off and the interactive command loop.                              *)
(***************************************************************************)
EXTENDS Integers, Sequences, FiniteSets, TLC

(* ------------------------------ bounds -------------------------------- *)
\* largest small text (in lines) handed to the pager, besides the 50-line one
MaxTotal == 4
\* largest small terminal height reported by the terminal, besides 22
MaxTermLines == 5
\* number of prompt inputs (advance / back) one pager session may consume
MaxInputs == 4

\* number of lines one run of main may read at its command prompt
MaxCommands == 2
\* number of li.work items on a results page
MaxItems == 2
\* length of the chapter markup, in characters, <br> and paragraph breaks
MaxTokens == 5
\* largest small --columns value and detected width, besides 80, 84 and 120
MaxColumns == 7
\* largest --chapter value
MaxChapterArg == 5
\* largest number of chapters listed by a work page
MaxChapters == 3

(* ------------------------- program constants -------------------------- *)
DashLen == 40
ChapterMargin == 4
SummaryMargin == 6
FallbackWidth == 80
SummaryCap == 150
TagCap == 5
DefaultHeight == 25
HeightMargin == 2

VARIABLES
    pc,              \* control position of the program
    stack,           \* call sites still to return to, innermost last
    lines,           \* manual_pager: text.split('\n')
    terminal_height, \* manual_pager: page size
    current_line,    \* manual_pager: offset of the page being shown
    emitted,         \* history: every line printed by manual_pager, in order
    prev_line,       \* history: current_line before the last prompt input
    nAdv,            \* history: advance inputs consumed at the pager prompt
    nInputs,         \* history: inputs consumed by manual_pager (all kinds)
    args,            \* main: args.url, args.query, args.read, args.page
    choice,          \* history: the last line read at the command prompt
    nCmds,           \* history: lines read at the command prompt
    interrupted,     \* history: where the last Ctrl-C was delivered
    tmp_files,       \* use_pager: temporary files of use_pager on disk
    tmp_created,     \* history: use_pager has created the temporary file
    work_url,        \* read_work: work_url
    terminal_width,  \* AO3Reader.terminal_width
    chapter_content, \* the work page: its div.userstuff (<<>> when it has none)
    chapter_nav,     \* the work page: the number of li of ol.chapter (<<>> if none)
    chapter,         \* args.chapter
    no_pager,        \* args.no_pager
    formatted,       \* read_work: formatted_content (<<>> before it is built)
    out,             \* what has been printed: one tag for each message
    html,            \* parse_search_results: the li.work items of the page
    works            \* parse_search_results: the list it returns

pagerVars ==
    <<lines, terminal_height, current_line, prev_line, emitted, nAdv, nInputs>>
parseVars == <<html, works>>
readVars ==
    <<work_url, terminal_width, chapter_content, chapter_nav, chapter, no_pager,
      formatted>>
tmpVars == <<tmp_files, tmp_created>>
mainVars == <<args, choice, nCmds, interrupted>>
vars == <<pc, stack, out, pagerVars, parseVars, readVars, tmpVars, mainVars>>

(* ------------------------------ helpers ------------------------------- *)
Min(a, b) == IF a <= b THEN a ELSE b
Max(a, b) == IF a >= b THEN a ELSE b

\* range(a, b) as the sequence a, a+1, ..., b-1 (empty when b <= a)
Range(a, b) == IF b <= a THEN <<>> ELSE [k \in 1..(b - a) |-> a + k - 1]

\* the sequences of at most n elements of S
SeqsUpTo(S, n) == UNION {[1..k -> S] : k \in 0..n}

\* str.lower() on the inputs the model types
Lower(s) ==
    CASE s = "Q" -> "q" [] s = "B" -> "b" [] s = "N" -> "n" [] OTHER -> s

\* the lines of the text of n lines whose line k reads k
TextOf(n) == [k \in 1..n |-> <<ToString(k)>>]

(* ------------------------------ strings ------------------------------- *)
\* A Python str is a sequence of pieces; a piece is one character or a run of
\* non-blank characters written as one TLA+ string.  "" is <<>>.
Str(s) == <<s>>
Whitespace == {" ", "\n", "\t"}

RECURSIVE LStrip(_)
LStrip(t) ==
    IF t # <<>> /\ Head(t) \in Whitespace THEN LStrip(Tail(t)) ELSE t

RECURSIVE RStrip(_)
RStrip(t) ==
    IF t # <<>> /\ t[Len(t)] \in Whitespace
    THEN RStrip(SubSeq(t, 1, Len(t) - 1)) ELSE t

\* str.strip()
Strip(t) == RStrip(LStrip(t))

\* t[:n]
Prefix(t, n) == SubSeq(t, 1, Min(n, Len(t)))

(* ------------------------ parse_search_results ------------------------ *)
\* An optional node or attribute is <<>> (absent) or <<x>> (present).
base_url == <<"https://", "archiveofourown.org">>

\* urljoin(base, href) for a base without a path
urljoin(base, href) ==
    IF href = <<>> THEN base
    ELSE IF Head(href) = "https://" THEN href
    ELSE IF Head(href) = "/" THEN base \o href
    ELSE base \o <<"/">> \o href

IsAbsoluteUrl(u) == Len(u) >= 2 /\ u[1] = "https://"

\* [f(x) for x in seq]
RECURSIVE TextsOf(_)
TextsOf(nodes) ==
    IF nodes = <<>> THEN <<>>
    ELSE <<Strip(Head(nodes).text)>> \o TextsOf(Tail(nodes))

\* heading.find_all('a', rel='author')
RECURSIVE AuthorLinks(_)
AuthorLinks(anchors) ==
    IF anchors = <<>> THEN <<>>
    ELSE (IF Head(anchors).rel_author THEN <<Head(anchors)>> ELSE <<>>)
         \o AuthorLinks(Tail(anchors))

\* [w.get('title', '') for w in warning_spans if w.get('title')]
RECURSIVE WarningTitles(_)
WarningTitles(spans) ==
    IF spans = <<>> THEN <<>>
    ELSE (IF Head(spans) # <<>> /\ Head(spans)[1] # <<>>
          THEN <<Head(spans)[1]>> ELSE <<>>)
         \o WarningTitles(Tail(spans))

\* dd.get_text().strip() if dd else "N/A"
StatText(dd) == IF dd # <<>> THEN Strip(dd[1]) ELSE Str("N/A")

\* title_link['href'] raises KeyError when the first link has no href
Raises(item) ==
    /\ item.heading # <<>>
    /\ item.heading[1] # <<>>
    /\ item.heading[1][1].href = <<>>

\* the dictionary built by lines 98-162 for an item that has a heading and
\* whose extraction does not raise
Record(item) ==
    LET anchors == item.heading[1]
        title_link == IF anchors # <<>> THEN <<anchors[1]>> ELSE <<>>
        author_links == AuthorLinks(anchors)
        required_tags == item.required_tags
        stats == item.stats
    IN  [ title |-> IF title_link # <<>> THEN Strip(title_link[1].text)
                    ELSE Str("Unknown Title"),
          url |-> IF title_link # <<>>
                  THEN urljoin(base_url, title_link[1].href[1]) ELSE <<>>,
          authors |-> IF author_links # <<>> THEN TextsOf(author_links)
                      ELSE <<Str("Unknown Author")>>,
          fandoms |-> IF item.fandoms # <<>> THEN TextsOf(item.fandoms[1])
                      ELSE <<>>,
          rating |-> IF required_tags # <<>> /\ required_tags[1].rating # <<>>
                     THEN (IF required_tags[1].rating[1] # <<>>
                           THEN required_tags[1].rating[1][1]
                           ELSE Str("Not Rated"))
                     ELSE Str("Not Rated"),
          warnings |-> IF required_tags # <<>>
                       THEN WarningTitles(required_tags[1].warnings) ELSE <<>>,
          kudos |-> IF stats # <<>> THEN StatText(stats[1].kudos) ELSE Str("N/A"),
          words |-> IF stats # <<>> THEN StatText(stats[1].words) ELSE Str("N/A"),
          chapters |-> IF stats # <<>> THEN StatText(stats[1].chapters)
                       ELSE Str("N/A"),
          hits |-> IF stats # <<>> THEN StatText(stats[1].hits) ELSE Str("N/A"),
          summary |-> IF item.summary # <<>>
                      THEN Prefix(Strip(item.summary[1]), SummaryCap)
                           \o <<".", ".", ".">>
                      ELSE <<>>,
          tags |-> IF item.tags # <<>>
                   THEN TextsOf(Prefix(item.tags[1], TagCap)) ELSE <<>> ]

\* a handler that leaves a half-built record behind
ExceptAppendPartial(acc, item) ==
    Append(acc, [Record([item EXCEPT !.heading = <<<<>>>>])
                    EXCEPT !.title = Strip(item.heading[1][1].text)])

\* except Exception: continue
ExceptContinue(acc, item) == acc

\* one pass of the for loop body over `item`
ItemStep(acc, item) ==
    IF item.heading = <<>> THEN acc
    ELSE IF Raises(item) THEN ExceptContinue(acc, item)
    ELSE Append(acc, Record(item))

RECURSIVE ParseFrom(_, _)
ParseFrom(acc, items) ==
    IF items = <<>> THEN acc
    ELSE ParseFrom(ItemStep(acc, Head(items)), Tail(items))

parse_search_results(items) == ParseFrom(<<>>, items)

(* ----------------------- read_work: chapter text ---------------------- *)
\* Emoji of the source's messages are written as a word in parentheses.
\* A node of the parsed page: a text node, or an element with children.
Node(kind, text, children) == [kind |-> kind, text |-> text, children |-> children]
Text(t) == Node("text", t, <<>>)
P(children) == Node("p", <<>>, children)
Br == Node("br", <<>>, <<>>)
Hr == Node("hr", <<>>, <<>>)
Script(t) == Node("script", <<>>, <<Text(t)>>)

\* for elem in chapter_content(['script', 'style']): elem.decompose()
RECURSIVE Decompose(_)
Decompose(nodes) ==
    IF nodes = <<>> THEN <<>>
    ELSE LET n == Head(nodes)
         IN  (IF n.kind \in {"script", "style"} THEN <<>>
              ELSE <<[n EXCEPT !.children = Decompose(n.children)]>>)
             \o Decompose(Tail(nodes))

\* a pipeline that forgets the paragraph markers
InsertNothingAfterP(nodes) == nodes

\* for p in chapter_content.find_all('p'): p.insert_after('\n\n')
RECURSIVE InsertAfterP(_)
InsertAfterP(nodes) ==
    IF nodes = <<>> THEN <<>>
    ELSE LET n == Head(nodes)
             m == [n EXCEPT !.children = InsertAfterP(n.children)]
         IN  (IF n.kind = "p" THEN <<m, Text(<<"\n", "\n">>)>> ELSE <<m>>)
             \o InsertAfterP(Tail(nodes))

\* for br in chapter_content.find_all('br'): br.replace_with('\n')
RECURSIVE ReplaceBr(_)
ReplaceBr(nodes) ==
    IF nodes = <<>> THEN <<>>
    ELSE LET n == Head(nodes)
         IN  (IF n.kind = "br" THEN <<Text(<<"\n">>)>>
              ELSE <<[n EXCEPT !.children = ReplaceBr(n.children)]>>)
             \o ReplaceBr(Tail(nodes))

\* '-' * 40
Dashes == [k \in 1..DashLen |-> "-"]

\* for hr in chapter_content.find_all('hr'): hr.replace_with('\n' + '-'*40 + '\n')
RECURSIVE ReplaceHr(_)
ReplaceHr(nodes) ==
    IF nodes = <<>> THEN <<>>
    ELSE LET n == Head(nodes)
         IN  (IF n.kind = "hr" THEN <<Text(<<"\n">> \o Dashes \o <<"\n">>)>>
              ELSE <<[n EXCEPT !.children = ReplaceHr(n.children)]>>)
             \o ReplaceHr(Tail(nodes))

\* get_text(): the text nodes in document order
RECURSIVE GetText(_)
GetText(nodes) ==
    IF nodes = <<>> THEN <<>>
    ELSE LET n == Head(nodes)
         IN  (IF n.kind = "text" THEN n.text ELSE GetText(n.children))
             \o GetText(Tail(nodes))

\* chapter_text of read_work for the div.userstuff `content` (<<>> when the
\* page has none)
ChapterText(content) ==
    IF content = <<>> THEN <<>>
    ELSE GetText(ReplaceHr(ReplaceBr(InsertAfterP(Decompose(content[1])))))

(* ------------------------------ textwrap ------------------------------ *)
SetMin(S) == CHOOSE x \in S : \A y \in S : x <= y
SetMax(S) == CHOOSE x \in S : \A y \in S : x >= y

RECURSIVE Concat(_)
Concat(seqs) == IF seqs = <<>> THEN <<>> ELSE Head(seqs) \o Concat(Tail(seqs))

RECURSIVE SumLen(_)
SumLen(seqs) == IF seqs = <<>> THEN 0 ELSE Len(Head(seqs)) + SumLen(Tail(seqs))

\* sep.join(parts)
RECURSIVE Join(_, _)
Join(sep, parts) ==
    IF parts = <<>> THEN <<>>
    ELSE IF Len(parts) = 1 THEN parts[1]
    ELSE parts[1] \o sep \o Join(sep, Tail(parts))

\* chunk.strip() == ''
IsBlank(t) == \A k \in 1..Len(t) : t[k] \in Whitespace

\* TextWrapper._split: runs of whitespace (each character replaced by a
\* space) and runs of other characters, for text without hyphens or tabs
RECURSIVE Chunks(_)
Chunks(t) ==
    IF t = <<>> THEN <<>>
    ELSE LET ws == Head(t) \in Whitespace
             n == SetMax({m \in 1..Len(t) :
                            \A k \in 1..m : (t[k] \in Whitespace) = ws})
         IN  <<[k \in 1..n |-> IF ws THEN " " ELSE t[k]]>>
             \o Chunks(SubSeq(t, n + 1, Len(t)))

\* TextWrapper._wrap_chunks for width >= 1: the lines; `have` says that a line
\* has been produced already
RECURSIVE WrapChunks(_, _, _)
WrapChunks(chunks, width, have) ==
    IF chunks = <<>> THEN <<>>
    ELSE LET c1 == IF IsBlank(Head(chunks)) /\ have THEN Tail(chunks) ELSE chunks
             k == SetMax({m \in 0..Len(c1) : SumLen(SubSeq(c1, 1, m)) <= width})
             cur0 == SubSeq(c1, 1, k)
             rest0 == SubSeq(c1, k + 1, Len(c1))
             long == rest0 # <<>> /\ Len(rest0[1]) > width
             space_left == width - SumLen(cur0)
             cur1 == IF long THEN Append(cur0, Prefix(rest0[1], space_left))
                     ELSE cur0
             rest1 == IF long
                      THEN <<SubSeq(rest0[1], space_left + 1, Len(rest0[1]))>>
                           \o Tail(rest0)
                      ELSE rest0
             cur2 == IF cur1 # <<>> /\ IsBlank(cur1[Len(cur1)])
                     THEN SubSeq(cur1, 1, Len(cur1) - 1) ELSE cur1
         IN  (IF cur2 # <<>> THEN <<Concat(cur2)>> ELSE <<>>)
             \o WrapChunks(rest1, width, have \/ cur2 # <<>>)

\* textwrap.fill(text, width) for width >= 1
Fill(text, width) == Join(<<"\n">>, WrapChunks(Chunks(text), width, FALSE))

(* ---------------------- format_content_for_pager ---------------------- *)
\* re.split(r'\n\s*\n', t): the leftmost newline that a run of whitespace
\* joins to a later newline starts a separator, which ends at the last newline
\* of that run
SeparatorEnds(t, i) ==
    {j \in (i + 1)..Len(t) :
        t[j] = "\n" /\ \A k \in (i + 1)..(j - 1) : t[k] \in Whitespace}
RECURSIVE RegexSplit(_)
RegexSplit(t) ==
    LET starts == {i \in 1..Len(t) : t[i] = "\n" /\ SeparatorEnds(t, i) # {}}
    IN  IF starts = {} THEN <<t>>
        ELSE LET i == SetMin(starts)
                 j == SetMax(SeparatorEnds(t, i))
             IN  <<SubSeq(t, 1, i - 1)>> \o RegexSplit(SubSeq(t, j + 1, Len(t)))

\* t.split('\n')
RECURSIVE SplitLines(_)
SplitLines(t) ==
    LET nls == {i \in 1..Len(t) : t[i] = "\n"}
    IN  IF nls = {} THEN <<t>>
        ELSE <<SubSeq(t, 1, SetMin(nls) - 1)>>
             \o SplitLines(SubSeq(t, SetMin(nls) + 1, Len(t)))

\* [line.strip() for line in paragraph.split('\n') if line.strip()]
RECURSIVE StrippedLines(_)
StrippedLines(ls) ==
    IF ls = <<>> THEN <<>>
    ELSE (IF Strip(Head(ls)) # <<>> THEN <<Strip(Head(ls))>> ELSE <<>>)
         \o StrippedLines(Tail(ls))

\* paragraph_text = ' '.join(lines)
ParagraphText(paragraph) == Join(<<" ">>, StrippedLines(SplitLines(paragraph)))

\* the loop over paragraphs: wrapped + "\n\n" for each that is not blank
RECURSIVE Body(_, _)
Body(paragraphs, width) ==
    IF paragraphs = <<>> THEN <<>>
    ELSE (IF Strip(Head(paragraphs)) # <<>>
          THEN Fill(ParagraphText(Head(paragraphs)), width) \o <<"\n", "\n">>
          ELSE <<>>)
         \o Body(Tail(paragraphs), width)

\* "=" * self.terminal_width
Separator(width) == [k \in 1..Max(0, width) |-> "="]

Header(width, title, author, ch, total_chapters) ==
    Separator(width) \o <<"\n">>
    \o <<"(books) ">> \o title \o <<"\n">>
    \o <<"(writing)  By ">> \o author \o <<"\n">>
    \o (IF total_chapters > 1
        THEN <<"(book) Chapter ", ToString(ch), " of ",
               ToString(total_chapters), "\n">>
        ELSE <<>>)
    \o Separator(width) \o <<"\n", "\n">>

\* if ch < total_chapters
NextHint(ch, total_chapters) == ch < total_chapters

\* if ch > 1
PrevHint(ch) == ch > 1

Footer(width, ch, total_chapters) ==
    IF total_chapters > 1
    THEN <<"\n">> \o Separator(width) \o <<"\n">>
         \o (IF NextHint(ch, total_chapters)
             THEN <<"(page) Use --chapter ", ToString(ch + 1),
                    " to read next chapter", "\n">>
             ELSE <<>>)
         \o (IF PrevHint(ch)
             THEN <<"(page) Use --chapter ", ToString(ch - 1),
                    " to read previous chapter", "\n">>
             ELSE <<>>)
         \o Separator(width) \o <<"\n">>
    ELSE <<>>

\* the wrap width of a chapter paragraph
ChapterWrapWidth(width) == width - ChapterMargin

\* the wrap width of a summary in display_works
SummaryWrapWidth(width) == width - SummaryMargin

\* textwrap.fill raises ValueError when the width is not positive, whatever
\* the text
FormatRaises(width, chapter_text) ==
    /\ chapter_text # <<>>
    /\ \E k \in 1..Len(RegexSplit(Strip(chapter_text))) :
          Strip(RegexSplit(Strip(chapter_text))[k]) # <<>>
    /\ ChapterWrapWidth(width) <= 0

\* format_content_for_pager when it returns
format_content_for_pager(width, title, author, chapter_text, ch, total_chapters) ==
    Header(width, title, author, ch, total_chapters)
    \o (IF chapter_text # <<>>
        THEN Body(RegexSplit(Strip(chapter_text)), ChapterWrapWidth(width))
        ELSE <<>>)
    \o Footer(width, ch, total_chapters)

(* --------------------------- unwinding -------------------------------- *)
\* Where control goes when the innermost call ends with `exc` ("none" for a
\* return, or "KeyboardInterrupt") and the calls made at the sites `stk` are
\* still open.  With no caller the result is "returned" or "raised".
RECURSIVE Unwind(_, _)
Unwind(stk, exc) ==
    IF stk = <<>>
    THEN IF exc = "none" THEN "returned" ELSE "raised"
    ELSE LET site == stk[Len(stk)]
             rest == SubSeq(stk, 1, Len(stk) - 1)
         IN  CASE site = "main:449" ->
                    \* except (ValueError, KeyboardInterrupt): break
                    IF exc = "none" THEN "main_prompt" ELSE "exit"
               [] site \in {"main:397", "main:423"} ->
                    \* no handler in main around these calls
                    IF exc = "none" THEN "exit" ELSE "unhandled KeyboardInterrupt"
               [] OTHER ->
                    \* use_pager and read_work catch Exception only
                    Unwind(rest, exc)

(* -------------------- the parts a specification leaves idle ----------- *)
PagerIdle ==
    /\ lines = <<>>
    /\ terminal_height = DefaultHeight
    /\ current_line = 0
    /\ prev_line = 0
    /\ emitted = <<>>
    /\ nAdv = 0
    /\ nInputs = 0

ParseIdle == html = <<>> /\ works = <<>>

ReadIdle ==
    /\ work_url = <<>>
    /\ terminal_width = FallbackWidth
    /\ chapter_content = <<>>
    /\ chapter_nav = <<>>
    /\ chapter = 1
    /\ no_pager = FALSE
    /\ formatted = <<>>

TmpIdle == tmp_files = 0 /\ tmp_created = FALSE

MainIdle ==
    /\ args = [url |-> <<>>, query |-> FALSE, read |-> <<>>, page |-> 1]
    /\ choice = <<>>
    /\ nCmds = 0
    /\ interrupted = "nowhere"

(* --------------------------- manual_pager ----------------------------- *)
\* os.get_terminal_size().lines - 2, or 25 when the size cannot be read
TermHeights ==
    {h - HeightMargin : h \in (0..MaxTermLines) \cup {22}} \cup {DefaultHeight}

\* an off-by-one page end
EndLineOffByOne(cur, height, total) == Min(cur + height + 1, total)

\* end_line = min(current_line + terminal_height, len(lines))
EndLine(cur, height, total) == Min(cur + height, total)

\* what the for loop prints: ls[cur], ..., ls[end_line - 1]
Page(ls, cur, end_line) ==
    [k \in 1..Len(Range(cur, end_line)) |-> ls[Range(cur, end_line)[k] + 1]]

\* 'b': current_line = max(0, current_line - terminal_height)
BackTo(cur, height) == Max(0, cur - height)

\* manual_pager ends with `exc` after one more input: control goes back to the
\* callers.  The locals of manual_pager and of read_work end with the call;
\* when the pager was called with no caller its last state is kept.
PagerExit(exc) ==
    /\ pc' = Unwind(stack, exc)
    /\ stack' = <<>>
    /\ IF stack = <<>>
       THEN /\ nInputs' = nInputs + 1
            /\ UNCHANGED <<lines, terminal_height, current_line, prev_line,
                           emitted, nAdv, formatted>>
       ELSE /\ lines' = <<>>
            /\ terminal_height' = DefaultHeight
            /\ current_line' = 0
            /\ prev_line' = 0
            /\ emitted' = <<>>
            /\ nAdv' = 0
            /\ nInputs' = 0
            /\ formatted' = <<>>

\* The head of the while loop over the lines `ls` with offset `cur`, `sofar`
\* being what has been printed, `prev` the offset before, `adv` and `ins` the
\* advancing inputs and the inputs read: print the page, then block on the
\* end-of-content input, on the prompt, or leave the loop.
LoopHead(ls, cur, height, sofar, prev, adv, ins) ==
    LET total == Len(ls)
        end_line == EndLine(cur, height, total)
    IN  IF cur < total
        THEN /\ lines' = ls
             /\ terminal_height' = height
             /\ current_line' = cur
             /\ prev_line' = prev
             /\ emitted' = sofar \o Page(ls, cur, end_line)
             /\ nAdv' = adv
             /\ nInputs' = ins
             /\ pc' = IF end_line >= total THEN "pager_ack" ELSE "pager_prompt"
             /\ UNCHANGED <<stack, formatted>>
        ELSE /\ pc' = Unwind(stack, "none")
             /\ stack' = <<>>
             /\ IF stack = <<>>
                THEN /\ lines' = ls
                     /\ terminal_height' = height
                     /\ current_line' = cur
                     /\ prev_line' = prev
                     /\ emitted' = sofar
                     /\ nAdv' = adv
                     /\ nInputs' = ins
                     /\ UNCHANGED formatted
                ELSE /\ lines' = <<>>
                     /\ terminal_height' = DefaultHeight
                     /\ current_line' = 0
                     /\ prev_line' = 0
                     /\ emitted' = <<>>
                     /\ nAdv' = 0
                     /\ nInputs' = 0
                     /\ formatted' = <<>>

\* manual_pager(text) up to its first blocking input
ManualPagerEnter ==
    /\ pc = "manual_pager"
    /\ \E h \in TermHeights :
           LoopHead(SplitLines(formatted[1]), 0, h, <<>>, 0, 0, 0)
    /\ UNCHANGED <<out, parseVars, work_url, terminal_width, chapter_content,
                   chapter_nav, chapter, no_pager, tmpVars, mainVars>>

PromptInputs == {"", "x", "q", "Q", "b", "B"}

\* input() at the pager prompt returns `response`
PagerPrompt(response) ==
    /\ pc = "pager_prompt"
    /\ nInputs < MaxInputs
    /\ LET end_line == EndLine(current_line, terminal_height, Len(lines))
       IN  IF Lower(response) = "q"
           THEN PagerExit("none")
           ELSE IF Lower(response) = "b"
           THEN LoopHead(lines, BackTo(current_line, terminal_height),
                         terminal_height, emitted, current_line, nAdv,
                         nInputs + 1)
           ELSE LoopHead(lines, end_line, terminal_height, emitted,
                         current_line, nAdv + 1, nInputs + 1)
    /\ UNCHANGED <<out, parseVars, work_url, terminal_width, chapter_content,
                   chapter_nav, chapter, no_pager, tmpVars, mainVars>>

PagerPromptInput == \E response \in PromptInputs : PagerPrompt(response)

\* Ctrl-C at the pager prompt: except KeyboardInterrupt: break
PagerPromptInterrupt ==
    /\ pc = "pager_prompt"
    /\ PagerExit("none")
    /\ interrupted' = "pager prompt"
    /\ UNCHANGED <<out, parseVars, work_url, terminal_width, chapter_content,
                   chapter_nav, chapter, no_pager, tmpVars, args, choice,
                   nCmds>>

\* input() after "[End of content ...]" returns a line: break
PagerAckInput ==
    /\ pc = "pager_ack"
    /\ PagerExit("none")
    /\ UNCHANGED <<out, parseVars, work_url, terminal_width, chapter_content,
                   chapter_nav, chapter, no_pager, tmpVars, mainVars>>

\* Ctrl-C at that input(): it is outside the try, the interrupt propagates
PagerAckInterrupt ==
    /\ pc = "pager_ack"
    /\ PagerExit("KeyboardInterrupt")
    /\ interrupted' = "end of content"
    /\ UNCHANGED <<out, parseVars, work_url, terminal_width, chapter_content,
                   chapter_nav, chapter, no_pager, tmpVars, args, choice,
                   nCmds>>

(* ----------------------- the pager on its own ------------------------- *)
Totals == (1..MaxTotal) \cup {50}

\* the text of n lines whose line k reads k
NumberedText(n) == Join(<<"\n">>, [k \in 1..n |-> <<ToString(k)>>])

InitPager ==
    /\ pc = "manual_pager"
    /\ stack = <<>>
    /\ out = <<>>
    /\ PagerIdle
    /\ ParseIdle
    /\ work_url = <<>>
    /\ terminal_width = FallbackWidth
    /\ chapter_content = <<>>
    /\ chapter_nav = <<>>
    /\ chapter = 1
    /\ no_pager = FALSE
    /\ formatted \in {<<NumberedText(n)>> : n \in Totals}
    /\ TmpIdle
    /\ MainIdle

NextPager ==
    \/ ManualPagerEnter
    \/ PagerPromptInput
    \/ PagerPromptInterrupt
    \/ PagerAckInput
    \/ PagerAckInterrupt

SpecPager == InitPager /\ [][NextPager]_vars

(* ------------------------------ __init__ ------------------------------ *)
\* self.terminal_width for the argument `columns` (<<>> is None): the argument
\* when it is truthy, else the detected width, else 80
TerminalWidths(columns, detected) ==
    IF columns # <<>> /\ columns[1] # 0 THEN {columns[1]}
    ELSE detected \cup {FallbackWidth}

ColumnArgs == {<<>>} \cup {<<n>> : n \in (-1..MaxColumns) \cup {84}}
DetectedColumns == (0..MaxColumns) \cup {120}

(* ------------------------------ read_work ----------------------------- *)
\* the URL of the work page the model reads
WorkUrl == <<"https://", "example.org", "/", "works/2">>

PageTitle == <<"Title">>
PageAuthor == <<"ann">>

\* total_chapters: 1, or the number of li of ol.chapter
TotalChapters(nav) == IF nav # <<>> THEN nav[1] ELSE 1

\* the innermost call ends with `exc` and control goes back to its callers
Return(exc) ==
    /\ pc' = Unwind(stack, exc)
    /\ stack' = <<>>

\* session.get(url): requests raises MissingSchema, a RequestException, for a
\* URL without a scheme; any request can fail in transport
FetchOutcomes(url) ==
    IF IsAbsoluteUrl(url) THEN {"ok", "RequestException"}
    ELSE {"RequestException"}

\* read_work(work_url, chapter, use_pager) up to the call of use_pager
ReadWork ==
    /\ pc = "read_work"
    /\ \E fetch \in FetchOutcomes(work_url) :
          IF fetch = "RequestException"
          THEN \* verify_adult_content prints and returns None: return
               /\ out' = Append(out, "Error accessing content")
               /\ Return("none")
               /\ UNCHANGED formatted
          ELSE IF FormatRaises(terminal_width, ChapterText(chapter_content))
          THEN \* except Exception as e: print
               /\ out' = Append(out, "Error reading work")
               /\ Return("none")
               /\ UNCHANGED formatted
          ELSE LET formatted_content ==
                     format_content_for_pager(
                          terminal_width, PageTitle, PageAuthor,
                          ChapterText(chapter_content), chapter,
                          TotalChapters(chapter_nav))
               IN  IF no_pager
                   THEN /\ out' = Append(out, "chapter")
                        /\ Return("none")
                        /\ formatted' = IF stack = <<>>
                                        THEN <<formatted_content>> ELSE <<>>
                   ELSE /\ out' = out
                        /\ formatted' = <<formatted_content>>
                        /\ pc' = "use_pager"
                        /\ stack' = Append(stack, "read_work:369")
    /\ UNCHANGED <<pagerVars, parseVars, work_url, terminal_width,
                   chapter_content, chapter_nav, chapter, no_pager, tmpVars,
                   mainVars>>

(* ------------------------------ use_pager ----------------------------- *)
\* use_pager(text) up to the point where it blocks: in manual_pager, or in
\* subprocess.run of the external pager.  `which` is what the two
\* `which` probes give (or that running them raises), `write` what
\* tmp_file.write(text) does.
UsePager ==
    /\ pc = "use_pager"
    /\ \E which \in {"less", "more", "none", "Exception"},
          write \in {"ok", "Exception", "KeyboardInterrupt"} :
          IF which = "none"
          THEN \* self.manual_pager(text); return
               /\ pc' = "manual_pager"
               /\ stack' = Append(stack, "use_pager:263")
               /\ UNCHANGED <<out, formatted, tmpVars, interrupted>>
          ELSE IF which = "Exception"
          THEN \* except Exception as e: print; self.manual_pager(text)
               /\ out' = Append(out, "Error using pager")
               /\ pc' = "manual_pager"
               /\ stack' = Append(stack, "use_pager:278")
               /\ UNCHANGED <<formatted, tmpVars, interrupted>>
          ELSE \* NamedTemporaryFile(mode='w', suffix='.txt', delete=False)
               /\ tmp_created' = TRUE
               /\ tmp_files' = tmp_files + 1
               /\ IF write = "ok"
                  THEN /\ pc' = "external_pager"
                       /\ UNCHANGED <<stack, out, formatted, interrupted>>
                  ELSE IF write = "Exception"
                  THEN \* the with block closes the file and the handler of
                       \* use_pager runs; nothing unlinks the file
                       /\ out' = Append(out, "Error using pager")
                       /\ pc' = "manual_pager"
                       /\ stack' = Append(stack, "use_pager:278")
                       /\ UNCHANGED <<formatted, interrupted>>
                  ELSE \* except Exception does not catch KeyboardInterrupt
                       /\ Return("KeyboardInterrupt")
                       /\ formatted' = IF stack = <<>> THEN formatted ELSE <<>>
                       /\ interrupted' = "temporary file write"
                       /\ UNCHANGED out
    /\ UNCHANGED <<pagerVars, parseVars, work_url, terminal_width,
                   chapter_content, chapter_nav, chapter, no_pager, args,
                   choice, nCmds>>

\* subprocess.run(pager_cmd + [tmp_file_path]) ends: the pager exits, it could
\* not be started or run, or the user interrupts.  finally: os.unlink
ExternalPager ==
    /\ pc = "external_pager"
    /\ tmp_files' = tmp_files - 1
    /\ \E run \in {"exit", "Exception", "KeyboardInterrupt"} :
          IF run = "Exception"
          THEN /\ out' = Append(out, "Error using pager")
               /\ pc' = "manual_pager"
               /\ stack' = Append(stack, "use_pager:278")
               /\ UNCHANGED <<formatted, interrupted>>
          ELSE /\ Return(IF run = "exit" THEN "none" ELSE "KeyboardInterrupt")
               /\ formatted' = IF stack = <<>> THEN formatted ELSE <<>>
               /\ interrupted' = IF run = "exit" THEN interrupted
                                 ELSE "external pager"
               /\ UNCHANGED out
    /\ UNCHANGED <<pagerVars, parseVars, work_url, terminal_width,
                   chapter_content, chapter_nav, chapter, no_pager,
                   tmp_created, args, choice, nCmds>>

\* use_pager on its own, on texts of 1..MaxTotal lines
InitUsePager ==
    /\ pc = "use_pager"
    /\ stack = <<>>
    /\ out = <<>>
    /\ PagerIdle
    /\ ParseIdle
    /\ work_url = <<>>
    /\ terminal_width = FallbackWidth
    /\ chapter_content = <<>>
    /\ chapter_nav = <<>>
    /\ chapter = 1
    /\ no_pager = FALSE
    /\ formatted \in {<<NumberedText(n)>> : n \in 1..MaxTotal}
    /\ TmpIdle
    /\ MainIdle

NextUsePager ==
    \/ UsePager
    \/ ExternalPager
    \/ ManualPagerEnter
    \/ PagerPromptInput
    \/ PagerPromptInterrupt
    \/ PagerAckInput
    \/ PagerAckInterrupt

SpecUsePager == InitUsePager /\ [][NextUsePager]_vars

(* ------------------ the chapter pipeline on its own ------------------- *)
\* t.split(sep) for a one-piece separator
RECURSIVE SplitOn(_, _)
SplitOn(t, sep) ==
    LET at == {i \in 1..Len(t) : t[i] = sep}
    IN  IF at = {} THEN <<t>>
        ELSE <<SubSeq(t, 1, SetMin(at) - 1)>>
             \o SplitOn(SubSeq(t, SetMin(at) + 1, Len(t)), sep)

\* Chapter markup written as a sequence of tokens: a character, "br" for <br>
\* and "</p><p>" between two paragraphs.
Tokens == {"a", " ", "\n", "br", "</p><p>"}
Inline(tok) == IF tok = "br" THEN Br ELSE Text(<<tok>>)
ParagraphOf(toks) == P([k \in 1..Len(toks) |-> Inline(toks[k])])
DocOf(toks) ==
    LET parts == SplitOn(toks, "</p><p>")
    IN  [k \in 1..Len(parts) |-> ParagraphOf(parts[k])]

\* markup with a script, a rule, a line break and text outside paragraphs
MixedDoc ==
    <<Text(<<"a", "\n">>), Script(<<"x">>), P(<<Text(<<"a">>)>>), Hr,
      P(<<Text(<<"a">>), Br, Text(<<"a">>)>>), Br, Text(<<" ", "a">>)>>

Docs ==
    {<<>>, <<<<>>>>, <<MixedDoc>>}
    \cup {<<DocOf(toks)>> : toks \in SeqsUpTo(Tokens, MaxTokens)}

InitChapter ==
    /\ pc = "read_work"
    /\ stack = <<>>
    /\ out = <<>>
    /\ PagerIdle
    /\ ParseIdle
    /\ terminal_width \in {4, 5, 7, 84}
    /\ chapter_content \in Docs
    /\ chapter_nav = <<>>
    /\ chapter = 1
    /\ no_pager = TRUE
    /\ formatted = <<>>
    /\ work_url = WorkUrl
    /\ TmpIdle
    /\ MainIdle

NextChapter == ReadWork

SpecChapter == InitChapter /\ [][NextChapter]_vars

(* --------------------- the formatter on its own ----------------------- *)
InitFormat ==
    /\ pc = "read_work"
    /\ stack = <<>>
    /\ out = <<>>
    /\ PagerIdle
    /\ ParseIdle
    /\ \E columns \in ColumnArgs, detected \in SUBSET DetectedColumns :
          /\ Cardinality(detected) <= 1
          /\ terminal_width \in TerminalWidths(columns, detected)
    /\ chapter_content \in {<<>>, <<MixedDoc>>}
    /\ chapter_nav \in {<<>>} \cup {<<n>> : n \in 0..MaxChapters}
    /\ chapter \in -1..MaxChapterArg
    /\ no_pager = TRUE
    /\ formatted = <<>>
    /\ work_url = WorkUrl
    /\ TmpIdle
    /\ MainIdle

NextFormat == ReadWork

SpecFormat == InitFormat /\ [][NextFormat]_vars

(* ---------------------- the pages the parser is run on ---------------- *)
Anchor(rel, href, text) == [rel_author |-> rel, href |-> href, text |-> text]
TitleRel == Anchor(FALSE, <<<<"/", "works/1">>>>, <<"\n", "Title", " ", "A", " ">>)
TitleAbs == Anchor(FALSE, <<<<"https://", "example.org", "/", "works/2">>>>, Str("B"))
TitleRelPath == Anchor(FALSE, <<<<"works/3">>>>, Str("C"))
TitleEmptyHref == Anchor(FALSE, <<<<>>>>, Str("D"))
TitleNoHref == Anchor(FALSE, <<>>, Str("E"))
Author1 == Anchor(TRUE, <<<<"/", "users/ann">>>>, <<" ", "ann">>)
Author2 == Anchor(TRUE, <<<<"/", "users/bob">>>>, Str("bob"))
Link(text) == Anchor(FALSE, <<<<"/", "tags/x">>>>, text)

\* h4.heading: absent, or present with its links in document order
HeadingShapes ==
    { <<>>,
      <<<<>>>>,
      <<<<TitleRel>>>>,
      <<<<TitleRel, Author1>>>>,
      <<<<TitleAbs, Author1, Author2>>>>,
      <<<<TitleRelPath, Author1>>>>,
      <<<<TitleEmptyHref, Author1>>>>,
      <<<<TitleNoHref, Author1>>>>,
      <<<<Author1>>>> }
FandomShapes == { <<>>, <<<<Link(Str("F1")), Link(<<"F2", " ">>), Link(Str("F3"))>>>> }
RequiredShapes ==
    { <<>>,
      <<[rating |-> <<>>, warnings |-> <<>>]>>,
      <<[rating |-> <<<<>>>>, warnings |-> <<<<>>, <<<<>>>>>>]>>,
      <<[rating |-> <<<<Str("Mature")>>>>,
         warnings |-> <<<<Str("W1")>>, <<>>, <<Str("W2")>>>>]>> }
Stat(k, w, c, h) == <<[kudos |-> k, words |-> w, chapters |-> c, hits |-> h]>>
StatShapes ==
    { <<>>,
      Stat(<<>>, <<>>, <<>>, <<>>),
      Stat(<<Str("10")>>, <<<<" ", "2,000">>>>, <<Str("1/1")>>, <<Str("99")>>),
      Stat(<<>>, <<Str("2,000")>>, <<Str("1/1")>>, <<Str("99")>>),
      Stat(<<Str("10")>>, <<>>, <<Str("1/1")>>, <<Str("99")>>),
      Stat(<<Str("10")>>, <<Str("2,000")>>, <<>>, <<Str("99")>>),
      Stat(<<Str("10")>>, <<Str("2,000")>>, <<Str("1/1")>>, <<>>) }
SummaryShapes == { <<>>, <<<<"\n", "a", " ", "b", "\n">>>> }
TagShapes ==
    { <<>>,
      <<<<Link(Str("t1")), Link(Str("t2")), Link(Str("t3")),
          Link(Str("t4")), Link(Str("t5")), Link(Str("t6"))>>>> }

\* an item with every substructure present
FullItem ==
    [ heading |-> <<<<TitleRel, Author1>>>>,
      fandoms |-> <<<<Link(Str("F1")), Link(<<"F2", " ">>), Link(Str("F3"))>>>>,
      required_tags |-> <<[rating |-> <<<<Str("Mature")>>>>,
                           warnings |-> <<<<Str("W1")>>, <<>>, <<Str("W2")>>>>]>>,
      stats |-> Stat(<<Str("10")>>, <<<<" ", "2,000">>>>, <<Str("1/1")>>, <<Str("99")>>),
      summary |-> <<<<"\n", "a", " ", "b", "\n">>>>,
      tags |-> <<<<Link(Str("t1")), Link(Str("t2")), Link(Str("t3")),
                   Link(Str("t4")), Link(Str("t5")), Link(Str("t6"))>>>> ]
\* an item with a heading that holds no link, and nothing else
EmptyItem ==
    [ heading |-> <<<<>>>>, fandoms |-> <<>>, required_tags |-> <<>>,
      stats |-> <<>>, summary |-> <<>>, tags |-> <<>> ]

\* the full item with one substructure varied, and the empty item with its
\* heading varied
ItemShapes ==
    {[FullItem EXCEPT !.heading = h] : h \in HeadingShapes}
    \cup {[FullItem EXCEPT !.fandoms = f] : f \in FandomShapes}
    \cup {[FullItem EXCEPT !.required_tags = r] : r \in RequiredShapes}
    \cup {[FullItem EXCEPT !.stats = t] : t \in StatShapes}
    \cup {[FullItem EXCEPT !.summary = u] : u \in SummaryShapes}
    \cup {[FullItem EXCEPT !.tags = g] : g \in TagShapes}
    \cup {[EmptyItem EXCEPT !.heading = h] : h \in HeadingShapes}

\* the pages: up to MaxItems items of these shapes, in any order
Pages == SeqsUpTo(ItemShapes, MaxItems)

InitParse ==
    /\ pc = "parse_search_results"
    /\ stack = <<>>
    /\ out = <<>>
    /\ PagerIdle
    /\ ReadIdle
    /\ TmpIdle
    /\ MainIdle
    /\ html \in Pages
    /\ works = <<>>

\* works = parse_search_results(html)
ParseSearchResults ==
    /\ pc = "parse_search_results"
    /\ works' = parse_search_results(html)
    /\ pc' = "parsed"
    /\ UNCHANGED <<stack, out, pagerVars, html, readVars, tmpVars, mainVars>>

NextParse == ParseSearchResults

SpecParse == InitParse /\ [][NextParse]_vars

(* -------------------------------- main -------------------------------- *)
\* a search that hands the parsed page back whatever the request did
SearchKeepsPage(fetch, page) == parse_search_results(page)

\* search_fics: the parsed page, or [] after "Error fetching search results"
search_fics(fetch, page) ==
    IF fetch = "ok" THEN parse_search_results(page) ELSE <<>>

SearchOut(fetch) ==
    IF fetch = "ok" THEN <<>> ELSE <<"Error fetching search results">>

\* display_works raises ValueError from textwrap.fill when a work has a
\* summary and the wrap width is not positive
DisplayRaises(width, ws) ==
    /\ SummaryWrapWidth(width) <= 0
    /\ \E k \in 1..Len(ws) : ws[k].summary # <<>>

\* what display_works prints
DisplayOut(ws) == IF ws = <<>> THEN <<"No works found.">> ELSE <<"works">>

\* the result pages the site serves
MainPages == {<<>>, <<FullItem>>, <<EmptyItem, FullItem>>}

\* args.read is truthy and 1 <= args.read <= len(works)
ReadSelected(read, ws) ==
    read # <<>> /\ read[1] # 0 /\ 1 <= read[1] /\ read[1] <= Len(ws)

\* main() up to the first point where it blocks or ends
Main ==
    /\ pc = "main"
    /\ IF args.url # <<>> /\ args.url[1] # <<>>
       THEN /\ out' = Append(out, "Reading work from URL...")
            /\ work_url' = args.url[1]
            /\ pc' = "read_work"
            /\ stack' = <<"main:397">>
            /\ UNCHANGED parseVars
       ELSE IF ~args.query
       THEN /\ out' = Append(out, "usage")
            /\ pc' = "exit"
            /\ UNCHANGED <<stack, work_url, parseVars>>
       ELSE \E fetch \in {"ok", "RequestException"}, page \in MainPages :
               LET ws == search_fics(fetch, page)
               IN  /\ html' = IF fetch = "ok" THEN page ELSE html
                   /\ works' = ws
                   /\ IF DisplayRaises(terminal_width, ws)
                      THEN \* nothing in main catches the ValueError
                           /\ out' = out \o SearchOut(fetch) \o DisplayOut(ws)
                           /\ pc' = "unhandled ValueError"
                           /\ UNCHANGED <<stack, work_url>>
                      ELSE IF ReadSelected(args.read, ws)
                      THEN /\ out' = out \o SearchOut(fetch) \o DisplayOut(ws)
                                     \o <<"Reading">>
                           /\ work_url' = ws[args.read[1]].url
                           /\ pc' = "read_work"
                           /\ stack' = <<"main:423">>
                      ELSE /\ out' = out \o SearchOut(fetch) \o DisplayOut(ws)
                           /\ pc' = IF ws # <<>> THEN "main_prompt" ELSE "exit"
                           /\ UNCHANGED <<stack, work_url>>
    /\ UNCHANGED <<pagerVars, terminal_width, chapter_content, chapter_nav,
                   chapter, no_pager, formatted, tmpVars, mainVars>>

\* str.lower() of a string
LowerStr(t) == [k \in 1..Len(t) |-> Lower(t[k])]

\* int(piece) for the numerals the model types
NumberPieces ==
    ("-1" :> -1) @@ ("0" :> 0) @@ ("1" :> 1) @@ ("2" :> 2) @@ ("9" :> 9)

\* int(c): <<n>>, or <<>> when int raises ValueError
IntOf(c) ==
    IF Len(c) = 1 /\ c[1] \in DOMAIN NumberPieces
    THEN <<NumberPieces[c[1]]>> ELSE <<>>

CommandInputs ==
    { <<"q">>, <<" ", "Q">>, <<"n">>, <<"N", " ">>, <<>>, <<"abc">>,
      <<"1", ".", "5">>, <<"-1">>, <<"0">>, <<" ", "1">>, <<"2">>, <<"9">> }

\* one pass of the while loop: input("> ") returns `raw`
Command(raw) ==
    /\ pc = "main_prompt"
    /\ nCmds < MaxCommands
    /\ nCmds' = nCmds + 1
    /\ choice' = <<raw>>
    /\ LET c == LowerStr(Strip(raw))
           num == IntOf(c)
       IN  IF c = <<"q">>
           THEN /\ pc' = "exit"
                /\ UNCHANGED <<stack, out, work_url, parseVars, args>>
           ELSE IF c = <<"n">>
           THEN \E fetch \in {"ok", "RequestException"}, page \in MainPages :
                   LET ws == search_fics(fetch, page)
                   IN  /\ html' = IF fetch = "ok" THEN page ELSE html
                       /\ works' = ws
                       /\ args' = [args EXCEPT !.page = args.page + 1]
                       /\ out' = out \o SearchOut(fetch) \o DisplayOut(ws)
                       \* a ValueError of display_works is caught: break
                       /\ pc' = IF DisplayRaises(terminal_width, ws)
                                THEN "exit" ELSE "main_prompt"
                       /\ UNCHANGED <<stack, work_url>>
           ELSE IF num = <<>>
           THEN \* except (ValueError, KeyboardInterrupt): break
                /\ pc' = "exit"
                /\ UNCHANGED <<stack, out, work_url, parseVars, args>>
           ELSE IF 1 <= num[1] /\ num[1] <= Len(works)
           THEN /\ out' = Append(out, "Reading")
                /\ work_url' = works[num[1]].url
                /\ pc' = "read_work"
                /\ stack' = <<"main:449">>
                /\ UNCHANGED <<parseVars, args>>
           ELSE /\ out' = Append(out, "Please enter a number")
                /\ UNCHANGED <<pc, stack, work_url, parseVars, args>>
    /\ UNCHANGED <<pagerVars, terminal_width, chapter_content, chapter_nav,
                   chapter, no_pager, formatted, tmpVars, interrupted>>

MainCommand == \E raw \in CommandInputs : Command(raw)

\* Ctrl-C at input("> "): except (ValueError, KeyboardInterrupt): break
MainPromptInterrupt ==
    /\ pc = "main_prompt"
    /\ pc' = "exit"
    /\ choice' = <<>>
    /\ interrupted' = "command prompt"
    /\ UNCHANGED <<stack, out, pagerVars, parseVars, readVars, tmpVars, args,
                   nCmds>>

\* the widths main is run with, and the arguments
MainWidths == {4, 5, FallbackWidth}
MainArgs ==
    [ url : {<<>>, <<WorkUrl>>}, query : BOOLEAN,
      read : {<<>>, <<0>>, <<1>>, <<3>>}, page : {1} ]

InitMain ==
    /\ pc = "main"
    /\ stack = <<>>
    /\ out = <<>>
    /\ PagerIdle
    /\ ParseIdle
    /\ work_url = <<>>
    /\ terminal_width \in MainWidths
    /\ chapter_content = <<MixedDoc>>
    /\ chapter_nav = <<>>
    /\ chapter = 1
    /\ no_pager \in BOOLEAN
    /\ formatted = <<>>
    /\ TmpIdle
    /\ args \in MainArgs
    /\ choice = <<>>
    /\ nCmds = 0
    /\ interrupted = "nowhere"

NextMain ==
    \/ Main
    \/ MainCommand
    \/ MainPromptInterrupt
    \/ ReadWork
    \/ UsePager
    \/ ExternalPager
    \/ ManualPagerEnter
    \/ PagerPromptInput
    \/ PagerPromptInterrupt
    \/ PagerAckInput
    \/ PagerAckInterrupt

SpecMain == InitMain /\ [][NextMain]_vars

(* ------------------------------ C3, C4 -------------------------------- *)
\* the items of the page that have a heading and whose extraction does not raise
Extractable(item) == item.heading # <<>> /\ ~Raises(item)
ExtractableIndices == {i \in 1..Len(html) : Extractable(html[i])}

\* the index in works of the record of item i
RecordIndex(i) == Cardinality({j \in ExtractableIndices : j <= i})

\* C3 as stated: an item whose extraction raises leaves no record, full or
\* partial; the parse goes on after it; every other item yields its record;
\* the records are in document order; a page without items gives [].
RaisingIndices == {i \in 1..Len(html) : Raises(html[i])}
Titles(item) ==
    {Strip(item.heading[1][k].text) : k \in 1..Len(item.heading[1])}

C3_EveryOtherItemYields ==
    pc = "parsed" =>
        /\ Len(works) = Len(html) - Cardinality(RaisingIndices)
        /\ \A i \in RaisingIndices, k \in 1..Len(works) :
              works[k].title \notin Titles(html[i]) \/ works[k].url # <<>>
        /\ html = <<>> => works = <<>>

\* C3 amended: an item whose extraction raises leaves no record, full or
\* partial; the parse goes on after it; every other item that has an
\* h4.heading yields its record (an item without one is skipped too, with no
\* exception); the records are in document order; a page without items
\* gives [].
C3_BestEffort ==
    pc = "parsed" =>
        /\ Len(works) = Cardinality(ExtractableIndices)
        /\ \A i \in ExtractableIndices : works[RecordIndex(i)] = Record(html[i])
        /\ html = <<>> => works = <<>>

\* C3 witness: a raising item followed by an item that yields its record
C3_Witness ==
    /\ pc = "parsed"
    /\ Len(html) = 2
    /\ Raises(html[1]) /\ Extractable(html[2])
    /\ Len(works) = 1

\* the page with item i replaced by the item that has every substructure
WithFull(i) == [html EXCEPT ![i] = FullItem]

\* the documented defaults of the fields other than url, for item i
DefaultsOf(i) ==
    LET item == html[i]
        r == works[RecordIndex(i)]
        NoStat(f) == item.stats = <<>> \/ item.stats[1][f] = <<>>
    IN  /\ AuthorLinks(item.heading[1]) = <<>> =>
              r.authors = <<Str("Unknown Author")>>
        /\ item.fandoms = <<>> => r.fandoms = <<>>
        /\ (item.required_tags = <<>> \/ item.required_tags[1].rating = <<>>) =>
              r.rating = Str("Not Rated")
        /\ item.required_tags = <<>> => r.warnings = <<>>
        /\ NoStat("kudos") => r.kudos = Str("N/A")
        /\ NoStat("words") => r.words = Str("N/A")
        /\ NoStat("chapters") => r.chapters = Str("N/A")
        /\ NoStat("hits") => r.hits = Str("N/A")
        /\ item.summary = <<>> => r.summary = <<>>
        /\ item.tags = <<>> => r.tags = <<>>

\* the records of the siblings of item i are those of the page on which item
\* i has every substructure
SiblingsUnaffected(i) ==
    LET alt == parse_search_results(WithFull(i))
    IN  /\ Len(alt) = Len(works)
        /\ \A k \in 1..Len(works) : k # RecordIndex(i) => alt[k] = works[k]

\* C4: every item that lacks an optional substructure still gets a record, the
\* field of that substructure has its documented default, url is an absolute
\* string, and the records of its siblings are unaffected.
C4_FieldDefaults ==
    pc = "parsed" =>
        /\ Len(works) = Cardinality(ExtractableIndices)
        /\ \A i \in ExtractableIndices :
              /\ DefaultsOf(i)
              /\ IsAbsoluteUrl(works[RecordIndex(i)].url)
              /\ SiblingsUnaffected(i)

(* -------------------------------- C5 ---------------------------------- *)
\* the paragraph nodes of the chapter markup
SourceParagraphs == chapter_content[1]
OnlyParagraphs ==
    /\ chapter_content # <<>>
    /\ SourceParagraphs # <<>>
    /\ \A k \in 1..Len(SourceParagraphs) : SourceParagraphs[k].kind = "p"

\* the text of a paragraph node, and its text once <br> is a line break
NodeText(p) == GetText(p.children)
BrokenText(p) == GetText(ReplaceBr(p.children))

\* a line of t holds nothing but blanks
HasBlankLine(t) ==
    \E i, j \in 1..Len(t) :
        /\ i < j /\ t[i] = "\n" /\ t[j] = "\n"
        /\ \A k \in (i + 1)..(j - 1) : t[k] \in Whitespace

\* the characters of t that are not blanks
RECURSIVE Squeeze(_)
Squeeze(t) ==
    IF t = <<>> THEN <<>>
    ELSE (IF Head(t) \in Whitespace THEN <<>> ELSE <<Head(t)>>) \o Squeeze(Tail(t))

\* t with every run of blanks that holds a line break replaced by one space
RECURSIVE CollapseBreaks(_)
CollapseBreaks(t) ==
    IF t = <<>> THEN <<>>
    ELSE IF Head(t) \notin Whitespace THEN <<Head(t)>> \o CollapseBreaks(Tail(t))
    ELSE LET n == SetMax({m \in 1..Len(t) : \A k \in 1..m : t[k] \in Whitespace})
             run == SubSeq(t, 1, n)
         IN  (IF \E k \in 1..n : run[k] = "\n" THEN <<" ">> ELSE run)
             \o CollapseBreaks(SubSeq(t, n + 1, Len(t)))

\* the lines of the output after the header, which ends with the first empty
\* line, and the groups into which empty lines split them
OutLines == SplitLines(formatted[1])
BodyLines ==
    SubSeq(OutLines, SetMin({k \in 1..Len(OutLines) : OutLines[k] = <<>>}) + 1,
           Len(OutLines))
Groups == SplitOn(BodyLines, <<>>)

\* the output holds exactly the n source paragraphs, in order, each followed
\* by exactly one blank line; a paragraph that fits the width is one line, its
\* line breaks collapsed to single spaces
OutputIsTheParagraphs ==
    LET n == Len(SourceParagraphs)
        width == ChapterWrapWidth(terminal_width)
    IN  /\ Len(Groups) = n + 2
        /\ Groups[n + 1] = <<>> /\ Groups[n + 2] = <<>>
        /\ \A k \in 1..n :
              LET t == BrokenText(SourceParagraphs[k])
              IN  /\ Groups[k] # <<>>
                  /\ Squeeze(Concat(Groups[k])) = Squeeze(t)
                  /\ \A m \in 1..Len(Groups[k]) : Len(Groups[k][m]) <= width
                  /\ Len(CollapseBreaks(Strip(t))) <= width =>
                        Groups[k] = <<CollapseBreaks(Strip(t))>>

C9_WrapWidthFloor ==
    /\ ChapterWrapWidth(terminal_width) >= 1
    /\ SummaryWrapWidth(terminal_width) >= 1
    /\ "Error reading work" \notin {out[k] : k \in 1..Len(out)}

HasPiece(text, piece) == \E k \in 1..Len(text) : text[k] = piece
NextHintShown == HasPiece(formatted[1], " to read next chapter")
PrevHintShown == HasPiece(formatted[1], " to read previous chapter")
ChapterExists(n) == 1 <= n /\ n <= TotalChapters(chapter_nav)

\* C10: for every --chapter value and every total, the footer offers the next
\* chapter only when total > 1 and chapter + 1 exists, and the previous chapter
\* only when total > 1 and chapter - 1 exists; an existing neighbour of an
\* existing chapter is offered, and total = 1 gives no hint at all.
C10_FooterHints ==
    formatted # <<>> =>
        /\ NextHintShown =>
              TotalChapters(chapter_nav) > 1 /\ ChapterExists(chapter + 1)
        /\ PrevHintShown =>
              TotalChapters(chapter_nav) > 1 /\ ChapterExists(chapter - 1)
        /\ (ChapterExists(chapter) /\ ChapterExists(chapter + 1)) => NextHintShown
        /\ (ChapterExists(chapter) /\ ChapterExists(chapter - 1)) => PrevHintShown

(* ------------------------------ C1, C2 -------------------------------- *)
Viewing == pc \in {"pager_prompt", "pager_ack"}
OnlyAdvances == nAdv = nInputs
Ended == pc = "pager_ack"

\* C1 as stated: every page is emitted by an advance input, so after k advance
\* inputs (and no other input) exactly the first min(k*P, T) lines have been
\* emitted and the pager is in Ended iff k*P >= T; for T = 50, P = 20 the state
\* is Ended after the third advance.
C1_AdvanceInputEmitsPage ==
    (Viewing /\ OnlyAdvances /\ terminal_height >= 1) =>
        /\ emitted = SubSeq(lines, 1, Min(nAdv * terminal_height, Len(lines)))
        /\ Ended <=> (nAdv * terminal_height >= Len(lines))
        /\ (Len(lines) = 50 /\ terminal_height = 20 /\ Ended) => nAdv = 3

\* C1 amended: the page at Viewing(offset) is emitted on entering that state,
\* before any input is read.  After k advance inputs (and no other input) the
\* offset is k*P, exactly the lines [0, min((k+1)*P, T)) have been emitted, in
\* order and once each, and the state is Ended iff offset + P >= T; for T = 50,
\* P = 20 the pages 1-20, 21-40, 41-50 are out and the state is Ended after the
\* second advance input.  Ended consumes exactly one input before control
\* leaves the pager.
C1_PageInv ==
    (Viewing /\ OnlyAdvances) =>
        /\ current_line = nAdv * terminal_height
        /\ emitted = SubSeq(lines, 1,
                        Max(0, Min((nAdv + 1) * terminal_height, Len(lines))))
        /\ Ended <=> (current_line + terminal_height >= Len(lines))
        /\ (Len(lines) = 50 /\ terminal_height = 20) =>
              /\ nAdv = 0 => emitted = TextOf(20)
              /\ nAdv = 1 => emitted = TextOf(40)
              /\ nAdv = 2 => emitted = TextOf(50)
              /\ Ended <=> nAdv = 2

C1_AckStep ==
    Ended => /\ pc' \in {"returned", "raised"}
             /\ nInputs' = nInputs + 1
             /\ emitted' = emitted

C1_PagesEmittedOnEntry == [](C1_PageInv) /\ [][C1_AckStep]_vars

\* C1 witness: the 50-line text on a 20-line page has reached Ended by advances
C1_Witness ==
    /\ Len(lines) = 50 /\ terminal_height = 20
    /\ Ended /\ OnlyAdvances /\ nAdv = 2 /\ emitted = TextOf(50)

\* C2: 0 <= offset <= total in every state, for every page size the code can
\* compute, and a step moves the offset only to min(offset + page, total) or
\* to max(0, offset - page).
C2_OffsetInvariant ==
    /\ 0 <= current_line /\ current_line <= Len(lines)
    /\ current_line \in
          { prev_line,
            Min(prev_line + terminal_height, Len(lines)),
            Max(0, prev_line - terminal_height) }

(* -------------------------------- C6 ---------------------------------- *)
UsePagerEnded == pc \in {"returned", "raised"}

\* C6: whenever use_pager has created the temporary file, the file is gone by
\* the time use_pager returns or unwinds, on every exit path: normal pager
\* exit, failure while writing, failure to start or run the pager, and an
\* interrupt during any of these.
C6_TempFileDeleted == (UsePagerEnded /\ tmp_created) => tmp_files = 0

(* -------------------------------- C7 ---------------------------------- *)
\* the choice read last is neither quit, nor next page, nor the number of a
\* listed work
InvalidChoice ==
    /\ choice # <<>>
    /\ LET c == LowerStr(Strip(choice[1]))
       IN  /\ c \notin {<<"q">>, <<"n">>}
           /\ \/ IntOf(c) = <<>>
              \/ ~(1 <= IntOf(c)[1] /\ IntOf(c)[1] <= Len(works))

\* C7: every invalid choice at the command prompt, an out-of-range number or a
\* non-numeric string other than 'q' and 'n', is reported with a hint and the
\* loop goes on reading commands.
C7_InvalidChoiceHint ==
    InvalidChoice =>
        /\ pc = "main_prompt"
        /\ out # <<>> /\ out[Len(out)] = "Please enter a number"

(* -------------------------------- C8 ---------------------------------- *)
\* C8: an interrupt at any interactive input (command prompt, pager prompt,
\* end-of-content acknowledgment), in every entry mode, is an implicit quit
\* and never leaves main as an unhandled exception.
C8_InterruptIsQuit ==
    interrupted \in {"command prompt", "pager prompt", "end of content"}
        => pc # "unhandled KeyboardInterrupt"

(* -------------------------------- C11 --------------------------------- *)
\* the search printed last failed in transport
SearchFailed ==
    Len(out) >= 2 /\ out[Len(out) - 1] = "Error fetching search results"

\* ... and it was the search main starts with
InitialSearchFailed == SearchFailed /\ nCmds = 0

\* ... and it was the search of the 'n' command read last
NextPageFailed ==
    SearchFailed /\ choice # <<>> /\ LowerStr(Strip(choice[1])) = <<"n">>

\* the read printed last failed in transport
ReadFailed == out # <<>> /\ out[Len(out)] = "Error accessing content"

\* ... and it was the read of the number command read last
LoopReadFailed ==
    ReadFailed /\ choice # <<>> /\ IntOf(LowerStr(Strip(choice[1]))) # <<>>

\* no work list and no chapter text came with the report
NoPartialOutput ==
    /\ SearchFailed => out[Len(out)] = "No works found." /\ works = <<>>
    /\ ReadFailed =>
          /\ Len(out) >= 2
          /\ out[Len(out) - 1] \in {"Reading", "Reading work from URL..."}
          /\ formatted = <<>>

\* C11 as stated: a transport error during a search, initial or next-page, or
\* during a read of the session is reported with no partial output and the
\* interactive session keeps accepting commands afterwards.
C11_SessionSurvivesTransportError ==
    /\ NoPartialOutput
    /\ (InitialSearchFailed \/ NextPageFailed \/ LoopReadFailed)
          => pc = "main_prompt"

\* C11 amended: a transport error is reported with no work list and no chapter
\* text.  In the command loop, after a failed next-page search (which leaves
\* an empty work list) and after a failed read, the loop goes on reading
\* commands.  A failed initial search prints "No works found." and the
\* program ends without entering the command loop; a failed read in --url or
\* --read mode ends the program.
C11_TransportErrorContained ==
    /\ NoPartialOutput
    /\ (NextPageFailed \/ LoopReadFailed) => pc = "main_prompt"
    /\ InitialSearchFailed => pc = "exit" /\ choice = <<>>
    /\ (ReadFailed /\ choice = <<>>) => pc = "exit"

\* C11 witness: a next-page search failed, the loop read another 'n', and that
\* search failed too
C11_Witness ==
    /\ NextPageFailed /\ pc = "main_prompt" /\ nCmds = 2
    /\ Len(out) >= 4 /\ out[Len(out) - 3] = "Error fetching search results"

====
